---- MODULE Spec2Model ----
(***************************************************************************)
(* Model of cmd/hil-vpn-privop/openvpn-conf.go: generation of an OpenVPN   *)
(* server config with its static key (NewOpenVpnConfig) and the paired     *)
(* creation of the config file and the key file (OpenVpnCfg.Save).         *)
(*                                                                         *)
(* Each process is one invocation context of hil-vpn-privop.  A Save is    *)
(* modelled one system call per step, so that two processes working in the *)
(* same config directory interleave at the granularity of the filesystem.  *)
(***************************************************************************)
EXTENDS Integers, Sequences, FiniteSets, TLC

VARIABLES
    fs,         \* the config directory: path -> [data, mode, by]
    umask,      \* the file mode creation mask of the processes
    pc,         \* per process: position in NewOpenVpnConfig / Save
    cfg,        \* per process: <<>> (nil) or <<OpenVpnCfg>>
    err,        \* per process: the local variable err of Save
    ret,        \* per process: the error value of the last return
    op,         \* per process: the last operation entered ("none", "new", "save")
    cfgFile,    \* per process: state of the handle cfgFile
    keyFile,    \* per process: state of the handle keyFile
    id,         \* per process: number of the Save in progress (or last finished)
    nsaves,     \* number of Save calls entered so far
    spawned,    \* per process: number of subprocesses spawned so far
    newCalls,   \* per process: number of NewOpenVpnConfig calls so far
    before,     \* per process: the directory as it was when Save was entered
    events,     \* per process: the steps of the Save in progress, in order
    stepFailed, \* per process: a step of the Save in progress returned an error
    rmFailed,   \* TRUE once an os.Remove has failed
    rmErr,      \* per process: an os.Remove of the Save in progress failed
    cmd,        \* per process: the outcome of the last cmd.Output()
    dir0,       \* the directory as it was initially
    calc,       \* a rendering on its own: its inputs and what it produced
    rendered    \* per process: the documents Execute completed for cfg so far

vars == <<fs, umask, pc, cfg, err, ret, op, cfgFile, keyFile, id,
          nsaves, spawned, newCalls, before, events, stepFailed,
          rmFailed, rmErr, cmd, dir0, calc, rendered>>

-----------------------------------------------------------------------------
(* Bounds of the model *)

\* Save calls entered in one run.
MaxSaves == 2

\* NewOpenVpnConfig calls entered in one run.
MaxNews == 2

\* The processes: two invocations of hil-vpn-privop.
Procs == {1, 2}

Names == {"lab1", "x"}

Vlans == {42}

Ports == {1194}

\* Captured standard outputs of "openvpn --genkey": arbitrary bytes.
KeyOutputs == {<<35, 10>>, <<255>>}

\* File mode creation masks the processes may run under (octal 022, 0277).
Umasks == {18, 191}

-----------------------------------------------------------------------------
(* Values *)

Nil == "nil"

EEXIST == "file exists"

EIO == "input/output error"

ExitStatus == "exit status 1"

configDir == "/etc/openvpn/server"

Libexecdir == "/usr/libexec/hil-vpn"

\* The permission argument 0600 of both os.OpenFile calls.
FilePerm == 384

RECURSIVE BitAnd(_, _)
BitAnd(a, b) ==
    IF a = 0 \/ b = 0 THEN 0
    ELSE (a % 2) * (b % 2) + 2 * BitAnd(a \div 2, b \div 2)

RECURSIVE BitAndNot(_, _)
BitAndNot(a, b) ==
    IF a = 0 THEN 0
    ELSE (a % 2) * (1 - (b % 2)) + 2 * BitAndNot(a \div 2, b \div 2)

getCfgPath(name) == configDir \o "/" \o name \o ".conf"

\* getKeyPath leaving the name out of the path.
getKeyPathShared(name) == configDir \o "/hil-vpn.key"

getKeyPath(name) == configDir \o "/hil-vpn-" \o name \o ".key"

getServiceName(vpnName) == "openvpn-server@" \o vpnName

-----------------------------------------------------------------------------
(* NewInterfaceName: base64.RawURLEncoding of 16 random bytes, cut to 12 *)

\* The URL-safe base64 alphabet of encoding/base64.
encodeURL ==
    << "A", "B", "C", "D", "E", "F", "G", "H", "I", "J", "K", "L", "M",
       "N", "O", "P", "Q", "R", "S", "T", "U", "V", "W", "X", "Y", "Z",
       "a", "b", "c", "d", "e", "f", "g", "h", "i", "j", "k", "l", "m",
       "n", "o", "p", "q", "r", "s", "t", "u", "v", "w", "x", "y", "z",
       "0", "1", "2", "3", "4", "5", "6", "7", "8", "9", "-", "_" >>

\* Three bytes give four characters.
EncodeQuantum(b1, b2, b3) ==
    LET n == b1 * 65536 + b2 * 256 + b3
    IN  << encodeURL[(n \div 262144) + 1],
           encodeURL[((n \div 4096) % 64) + 1],
           encodeURL[((n \div 64) % 64) + 1],
           encodeURL[(n % 64) + 1] >>

\* Without padding, a trailing byte gives two characters and two trailing
\* bytes give three.
RECURSIVE RawURLEncoding(_)
RawURLEncoding(data) ==
    IF Len(data) = 0 THEN << >>
    ELSE IF Len(data) = 1
    THEN << encodeURL[(data[1] \div 4) + 1], encodeURL[((data[1] % 4) * 16) + 1] >>
    ELSE IF Len(data) = 2
    THEN LET n == (data[1] * 256 + data[2]) * 4
         IN  << encodeURL[(n \div 4096) + 1],
                encodeURL[((n \div 64) % 64) + 1],
                encodeURL[(n % 64) + 1] >>
    ELSE EncodeQuantum(data[1], data[2], data[3])
           \o RawURLEncoding(SubSeq(data, 4, Len(data)))

RECURSIVE Join(_)
Join(chars) ==
    IF Len(chars) = 0 THEN "" ELSE Head(chars) \o Join(Tail(chars))

\* Number of characters kept of the encoding.
InterfaceNameLen == 12

\* Number of bytes read from crypto/rand.
RandLen == 16

\* NewInterfaceNameChars keeping the whole encoding.
NewInterfaceNameWhole(data) == RawURLEncoding(data)

\* The characters of EncodeToString(data[:])[:12].
NewInterfaceNameChars(data) ==
    SubSeq(RawURLEncoding(data), 1, InterfaceNameLen)

\* The value NewInterfaceName returns for the bytes rand.Read supplied.
NewInterfaceName(data) == Join(NewInterfaceNameChars(data))

\* Outcomes of rand.Read(data[:]): the bytes read, or an error.
RandData ==
    { [i \in 1..RandLen |-> 0],
      [i \in 1..RandLen |-> IF i % 2 = 1 THEN 251 ELSE 255] }

RandReads ==
    { [data |-> d, err |-> Nil] : d \in RandData }
      \cup { [data |-> [i \in 1..RandLen |-> 0], err |-> EIO] }

-----------------------------------------------------------------------------
(* openVpnCfgTpl: the rendered document, line by line *)

Digits == << "0", "1", "2", "3", "4", "5", "6", "7", "8", "9" >>

RECURSIVE Itoa(_)
Itoa(n) ==
    IF n < 10 THEN Digits[n + 1]
    ELSE Itoa(n \div 10) \o Digits[(n % 10) + 1]

\* The text of the template up to the first action {{ .NewInterfaceName }}.
TplHead ==
    << "",
       "# This file is automatically generated by hil-vpn-privop; do not modify manually.",
       "",
       "dev tap" >>

\* Render using the interface name in the name of the secret file as well.
RenderNamedSecret(c, libexecdir, ifname) ==
    << "",
       "# This file is automatically generated by hil-vpn-privop; do not modify manually.",
       "",
       "dev tap" \o ifname,
       "secret hil-vpn-" \o c.Name \o ifname \o ".key",
       "",
       "# The default cipher is insecure, so we explicitly set the cipher to the openvpn",
       "# project's recommendation. See https://community.openvpn.net/openvpn/wiki/SWEET32",
       "cipher AES-256-CBC",
       "",
       "lport " \o Itoa(c.Port),
       "",
       "up \"" \o libexecdir \o "/hil-vpn-hook-up " \o Itoa(c.Vlan) \o "\"",
       "# Needed to permit the above to actually run:",
       "script-security 2",
       "",
       "user nobody",
       "group nobody" >>

\* Render with the port and the vlan taking each other's place.
RenderSwapped(c, libexecdir, ifname) ==
    << "",
       "# This file is automatically generated by hil-vpn-privop; do not modify manually.",
       "",
       "dev tap" \o ifname,
       "secret hil-vpn-" \o c.Name \o ".key",
       "",
       "# The default cipher is insecure, so we explicitly set the cipher to the openvpn",
       "# project's recommendation. See https://community.openvpn.net/openvpn/wiki/SWEET32",
       "cipher AES-256-CBC",
       "",
       "lport " \o Itoa(c.Vlan),
       "",
       "up \"" \o libexecdir \o "/hil-vpn-hook-up " \o Itoa(c.Port) \o "\"",
       "# Needed to permit the above to actually run:",
       "script-security 2",
       "",
       "user nobody",
       "group nobody" >>

\* The document Execute writes for arg = templateArg{c, libexecdir} when
\* NewInterfaceName returns ifname.
Render(c, libexecdir, ifname) ==
    << "",
       "# This file is automatically generated by hil-vpn-privop; do not modify manually.",
       "",
       "dev tap" \o ifname,
       "secret hil-vpn-" \o c.Name \o ".key",
       "",
       "# The default cipher is insecure, so we explicitly set the cipher to the openvpn",
       "# project's recommendation. See https://community.openvpn.net/openvpn/wiki/SWEET32",
       "cipher AES-256-CBC",
       "",
       "lport " \o Itoa(c.Port),
       "",
       "up \"" \o libexecdir \o "/hil-vpn-hook-up " \o Itoa(c.Vlan) \o "\"",
       "# Needed to permit the above to actually run:",
       "script-security 2",
       "",
       "user nobody",
       "group nobody" >>

-----------------------------------------------------------------------------
(* The filesystem calls Save makes *)

\* A handle that was never opened, an open one and a closed one.
NoHandle == [st |-> "nil", ino |-> 0]

Opened(ino) == [st |-> "open", ino |-> ino]

\* Closed leaving the handle as it is.
LeftOpen(h) == h

Closed(h) == [h EXCEPT !.st = "closed"]

\* OpenErrors without O_EXCL: an existing path is opened.
OpenErrorsNoExcl(dir, path) == {Nil, EIO}

\* os.OpenFile(path, O_CREATE|O_EXCL|O_RDWR, perm): the errors it can return
\* in directory dir.  With O_EXCL an existing path is an error.
OpenErrors(dir, path) ==
    IF path \in DOMAIN dir THEN {EEXIST} ELSE {Nil, EIO}

\* CreateMode with read permission for group and others (0644).
CreateModeWorld(perm, mask) == BitAndNot(perm + 36, mask)

\* The mode a file created with permission perm gets under mask.
CreateMode(perm, mask) == BitAndNot(perm, mask)

\* The directory after a successful os.OpenFile with O_CREATE: a missing
\* path gets a new, empty file, numbered ino.
Create(dir, path, perm, mask, ino) ==
    IF path \in DOMAIN dir THEN dir
    ELSE dir @@ (path :> [data |-> << >>, mode |-> CreateMode(perm, mask), by |-> ino])

\* The file a successful os.OpenFile returns a handle to.
InoAt(dir, path) == dir[path].by

\* A write through a handle reaches the file the handle was opened on, which
\* is visible at path only while that file is still linked there.
WriteAt(dir, path, h, data) ==
    IF path \in DOMAIN dir /\ dir[path].by = h.ino
    THEN [dir EXCEPT ![path].data = data]
    ELSE dir

\* Remove that unlinks nothing.
RemoveNothing(dir, path) == dir

\* os.Remove(path): unlinks whatever is at path.
Remove(dir, path) == [q \in (DOMAIN dir) \ {path} |-> dir[q]]

\* The errors os.Remove can return.
RemoveErrors(dir, path) ==
    IF path \in DOMAIN dir THEN {Nil, EIO} ELSE {"no such file or directory"}

\* The errors File.Close can return.
CloseErrors == {Nil, EIO}

\* The first deferred function never removing the config file.
CfgRemoveNever(e) == FALSE

\* Line 76: the condition "err != nil" under which the first deferred
\* function removes the config file.
CfgRemoveOnError(e) == e # Nil

\* The second deferred function never removing the key file.
KeyRemoveNever(e) == FALSE

\* Line 86: the condition "err != nil" under which the second deferred
\* function removes the key file.
KeyRemoveOnError(e) == e # Nil

\* KeyBytes losing the last byte of the key.
KeyBytesTruncated(c) == SubSeq(c.Key, 1, Len(c.Key) - 1)

\* The bytes Save hands to keyFile.Write: []byte(cfg.Key).  Key holds
\* string(output); both conversions copy the bytes unchanged.
KeyBytes(c) == c.Key

\* Lengths at which a failed write may have stopped.
PartialLens == {0, 1}

Prefix(seq, n) == SubSeq(seq, 1, IF n < Len(seq) THEN n ELSE Len(seq))

\* ReturnOnError going on to the next statement whatever the error.
ReturnNever(e) == FALSE

\* Lines 94-96: Save returns the error of Execute instead of going on to the
\* write of the key.
ReturnOnError(e) == e # Nil

\* chkfatal(ctx, err): the process is terminated when err is not nil.
chkfatal(e) == e # Nil

-----------------------------------------------------------------------------
(* Initial states *)

\* A file that was in the directory before any call of the model.
OldFile == [data |-> << "old" >>, mode |-> FilePerm, by |-> 0]

\* The directories a run may start from: any set of files of the first name.
InitDirs == SUBSET {getCfgPath("lab1"), getKeyPath("lab1")}

\* No rendering on its own is under way.
NoCalc == [stage |-> "none"]

InitIn(dirs, procs, masks) ==
    /\ \E present \in dirs : fs = [q \in present |-> OldFile]
    /\ umask \in masks
    /\ pc = [p \in Procs |-> IF p \in procs THEN "start" ELSE "absent"]
    /\ cfg = [p \in Procs |-> << >>]
    /\ err = [p \in Procs |-> Nil]
    /\ ret = [p \in Procs |-> Nil]
    /\ op = [p \in Procs |-> "none"]
    /\ cfgFile = [p \in Procs |-> NoHandle]
    /\ keyFile = [p \in Procs |-> NoHandle]
    /\ id = [p \in Procs |-> 0]
    /\ nsaves = 0
    /\ spawned = [p \in Procs |-> 0]
    /\ newCalls = [p \in Procs |-> 0]
    /\ before = [p \in Procs |-> fs]
    /\ events = [p \in Procs |-> << >>]
    /\ stepFailed = [p \in Procs |-> FALSE]
    /\ rmFailed = FALSE
    /\ rmErr = [p \in Procs |-> FALSE]
    /\ cmd = [p \in Procs |-> [output |-> << >>, err |-> Nil]]
    /\ dir0 = fs
    /\ rendered = [p \in Procs |-> << >>]

\* One process, whose provisioning requests follow one another, in any of
\* the initial directories.
Init == InitIn(InitDirs, {1}, Umasks) /\ calc = NoCalc

\* Two processes, whose provisioning requests may overlap, in an empty
\* directory under the usual mask 022.
InitConc == InitIn({{}}, Procs, {18}) /\ calc = NoCalc

-----------------------------------------------------------------------------
(* NewOpenVpnConfig *)

\* Outcomes of cmd.Output(): the captured standard output, or an error.
CmdResults ==
    { [output |-> k, err |-> Nil] : k \in KeyOutputs }
      \cup { [output |-> << >>, err |-> ExitStatus] }

\* NewConfig not checking the error of cmd.Output().
NewConfigIgnoreErr(name, vlan, port, r) ==
    [cfg |-> << [Name |-> name, Port |-> port, Vlan |-> vlan, Key |-> r.output] >>,
     err |-> Nil]

\* The two return values of NewOpenVpnConfig for the outcome r of cmd.Output().
NewConfig(name, vlan, port, r) ==
    IF r.err # Nil
    THEN [cfg |-> << >>, err |-> "Error invoking openvpn: " \o r.err]
    ELSE [cfg |-> << [Name |-> name, Port |-> port, Vlan |-> vlan, Key |-> r.output] >>,
          err |-> Nil]

NewOpenVpnConfig(p, name, vlan, port) ==
    /\ pc[p] \in {"start", "done"}
    /\ newCalls[1] + newCalls[2] < MaxNews
    /\ \E r \in CmdResults :
         LET res == NewConfig(name, vlan, port, r)
         IN  /\ cfg' = [cfg EXCEPT ![p] = res.cfg]
             /\ ret' = [ret EXCEPT ![p] = res.err]
             /\ cmd' = [cmd EXCEPT ![p] = r]
    /\ spawned' = [spawned EXCEPT ![p] = @ + 1]
    /\ newCalls' = [newCalls EXCEPT ![p] = @ + 1]
    /\ op' = [op EXCEPT ![p] = "new"]
    /\ pc' = [pc EXCEPT ![p] = "done"]
    \* The frame of an earlier Save of this process is gone.
    /\ err' = [err EXCEPT ![p] = Nil]
    /\ cfgFile' = [cfgFile EXCEPT ![p] = NoHandle]
    /\ keyFile' = [keyFile EXCEPT ![p] = NoHandle]
    /\ events' = [events EXCEPT ![p] = << >>]
    /\ stepFailed' = [stepFailed EXCEPT ![p] = FALSE]
    /\ before' = [before EXCEPT ![p] = fs]
    /\ id' = [id EXCEPT ![p] = 0]
    /\ rmErr' = [rmErr EXCEPT ![p] = FALSE]
    /\ rendered' = [rendered EXCEPT ![p] = << >>]
    /\ UNCHANGED <<fs, umask, nsaves, rmFailed, dir0, calc>>

-----------------------------------------------------------------------------
(* OpenVpnCfg.Save, one step per system call *)

\* The bookkeeping of one step: its name, and whether it returned an error.
Log(p, call, e) ==
    /\ events' = [events EXCEPT ![p] = Append(@, call)]
    /\ stepFailed' = [stepFailed EXCEPT ![p] = @ \/ e # Nil]

\* Lines 67-73: entry of Save and creation of the config file.
SaveOpenCfg(p) ==
    /\ pc[p] = "done"
    /\ cfg[p] # << >>
    /\ nsaves < MaxSaves
    /\ LET cfgPath == getCfgPath(cfg[p][1].Name)
           ino == nsaves + 1
       IN  \E e \in OpenErrors(fs, cfgPath) :
             /\ events' = [events EXCEPT ![p] = << "openCfg" >>]
             /\ stepFailed' = [stepFailed EXCEPT ![p] = e # Nil]
             /\ err' = [err EXCEPT ![p] = e]
             /\ IF e # Nil
                THEN /\ ret' = [ret EXCEPT ![p] = e]
                     /\ pc' = [pc EXCEPT ![p] = "done"]
                     /\ cfgFile' = [cfgFile EXCEPT ![p] = NoHandle]
                     /\ fs' = fs
                ELSE /\ fs' = Create(fs, cfgPath, FilePerm, umask, ino)
                     /\ cfgFile' = [cfgFile EXCEPT ![p] = Opened(InoAt(fs', cfgPath))]
                     /\ pc' = [pc EXCEPT ![p] = "openKey"]
                     /\ ret' = ret
             /\ id' = [id EXCEPT ![p] = ino]
    /\ keyFile' = [keyFile EXCEPT ![p] = NoHandle]
    /\ before' = [before EXCEPT ![p] = fs]
    /\ nsaves' = nsaves + 1
    /\ op' = [op EXCEPT ![p] = "save"]
    /\ rmErr' = [rmErr EXCEPT ![p] = FALSE]
    /\ UNCHANGED <<umask, cfg, spawned, newCalls, cmd, rmFailed, dir0, calc, rendered>>

\* Lines 80-83: creation of the key file.
SaveOpenKey(p) ==
    /\ pc[p] = "openKey"
    /\ LET keyPath == getKeyPath(cfg[p][1].Name)
       IN  \E e \in OpenErrors(fs, keyPath) :
             /\ Log(p, "openKey", e)
             /\ err' = [err EXCEPT ![p] = e]
             /\ IF e # Nil
                THEN /\ ret' = [ret EXCEPT ![p] = e]
                     /\ pc' = [pc EXCEPT ![p] = "closeCfg"]
                     /\ UNCHANGED <<fs, keyFile>>
                ELSE /\ fs' = Create(fs, keyPath, FilePerm, umask, id[p])
                     /\ keyFile' = [keyFile EXCEPT ![p] = Opened(InoAt(fs', keyPath))]
                     /\ pc' = [pc EXCEPT ![p] = "execute"]
                     /\ ret' = ret
    /\ UNCHANGED <<umask, cfg, op, cfgFile, id, nsaves, spawned,
                   newCalls, cmd, before, rmFailed, rmErr, dir0, calc, rendered>>

\* Lines 90-96: openVpnCfgTpl.Execute(cfgFile, arg).  The template writes its
\* head, then calls NewInterfaceName, which reads the random source and ends
\* the process through chkfatal when the read fails.
SaveExecute(p) ==
    /\ pc[p] = "execute"
    /\ LET c == cfg[p][1]
           cfgPath == getCfgPath(c.Name)
       IN  \E r \in RandReads :
             IF chkfatal(r.err)
             THEN /\ fs' = WriteAt(fs, cfgPath, cfgFile[p], TplHead)
                  /\ Log(p, "fatal", r.err)
                  /\ pc' = [pc EXCEPT ![p] = "exited"]
                  /\ cfgFile' = [cfgFile EXCEPT ![p] = Closed(@)]
                  /\ keyFile' = [keyFile EXCEPT ![p] = Closed(@)]
                  /\ UNCHANGED <<err, ret, rendered>>
             ELSE LET doc == Render(c, Libexecdir, NewInterfaceName(r.data))
                  IN  \/ /\ fs' = WriteAt(fs, cfgPath, cfgFile[p], doc)
                         /\ Log(p, "execute", Nil)
                         /\ err' = [err EXCEPT ![p] = Nil]
                         /\ pc' = [pc EXCEPT ![p] = "writeKey"]
                         /\ rendered' = [rendered EXCEPT ![p] = Append(@, doc)]
                         /\ UNCHANGED <<ret, cfgFile, keyFile>>
                      \/ \E n \in PartialLens :
                         /\ fs' = WriteAt(fs, cfgPath, cfgFile[p], Prefix(doc, n))
                         /\ Log(p, "execute", EIO)
                         /\ err' = [err EXCEPT ![p] = EIO]
                         /\ ret' = [ret EXCEPT ![p] = EIO]
                         /\ pc' = [pc EXCEPT ![p] = IF ReturnOnError(EIO)
                                                     THEN "closeKey"
                                                     ELSE "writeKey"]
                         /\ UNCHANGED <<cfgFile, keyFile, rendered>>
    /\ UNCHANGED <<umask, cfg, op, id, nsaves, spawned, newCalls, cmd,
                   before, rmFailed, rmErr, dir0, calc>>

\* Lines 97-98: keyFile.Write([]byte(cfg.Key)) and the return of its error.
SaveWriteKey(p) ==
    /\ pc[p] = "writeKey"
    /\ LET c == cfg[p][1]
           keyPath == getKeyPath(c.Name)
       IN  \/ /\ fs' = WriteAt(fs, keyPath, keyFile[p], KeyBytes(c))
              /\ Log(p, "writeKey", Nil)
              /\ err' = [err EXCEPT ![p] = Nil]
              /\ ret' = [ret EXCEPT ![p] = Nil]
           \/ \E n \in PartialLens :
              /\ fs' = WriteAt(fs, keyPath, keyFile[p], Prefix(KeyBytes(c), n))
              /\ Log(p, "writeKey", EIO)
              /\ err' = [err EXCEPT ![p] = EIO]
              /\ ret' = [ret EXCEPT ![p] = EIO]
    /\ pc' = [pc EXCEPT ![p] = "closeKey"]
    /\ UNCHANGED <<umask, cfg, op, cfgFile, keyFile, id, nsaves,
                   spawned, newCalls, cmd, before, rmFailed, rmErr, dir0, calc, rendered>>

\* Line 85: the deferred keyFile.Close(); its error is discarded.
DeferKeyClose(p) ==
    /\ pc[p] = "closeKey"
    /\ \E e \in CloseErrors : Log(p, "closeKey", e)
    /\ keyFile' = [keyFile EXCEPT ![p] = Closed(@)]
    /\ pc' = [pc EXCEPT ![p] = IF KeyRemoveOnError(err[p]) THEN "removeKey" ELSE "closeCfg"]
    /\ UNCHANGED <<fs, umask, cfg, err, ret, op, cfgFile, id, nsaves,
                   spawned, newCalls, cmd, before, rmFailed, rmErr, dir0, calc, rendered>>

\* Lines 86-88: the deferred os.Remove(keyPath); its error is discarded.
DeferKeyRemove(p) ==
    /\ pc[p] = "removeKey"
    /\ LET keyPath == getKeyPath(cfg[p][1].Name)
       IN  \E e \in RemoveErrors(fs, keyPath) :
             /\ Log(p, "removeKey", e)
             /\ fs' = IF e = Nil THEN Remove(fs, keyPath) ELSE fs
             /\ rmFailed' = (rmFailed \/ e # Nil)
             /\ rmErr' = [rmErr EXCEPT ![p] = @ \/ e # Nil]
    /\ pc' = [pc EXCEPT ![p] = "closeCfg"]
    /\ UNCHANGED <<umask, cfg, err, ret, op, cfgFile, keyFile, id,
                   nsaves, spawned, newCalls, cmd, before, dir0, calc, rendered>>

\* Line 75: the deferred cfgFile.Close(); its error is discarded.  When no
\* removal follows, Save has returned.
DeferCfgClose(p) ==
    /\ pc[p] = "closeCfg"
    /\ \E e \in CloseErrors : Log(p, "closeCfg", e)
    /\ cfgFile' = [cfgFile EXCEPT ![p] = Closed(@)]
    /\ pc' = [pc EXCEPT ![p] = IF CfgRemoveOnError(err[p]) THEN "removeCfg" ELSE "done"]
    /\ UNCHANGED <<fs, umask, cfg, err, ret, op, keyFile, id, nsaves,
                   spawned, newCalls, cmd, before, rmFailed, rmErr, dir0, calc, rendered>>

\* Lines 76-78: the deferred os.Remove(cfgPath); its error is discarded.
\* Save has returned after it.
DeferCfgRemove(p) ==
    /\ pc[p] = "removeCfg"
    /\ LET cfgPath == getCfgPath(cfg[p][1].Name)
       IN  \E e \in RemoveErrors(fs, cfgPath) :
             /\ Log(p, "removeCfg", e)
             /\ fs' = IF e = Nil THEN Remove(fs, cfgPath) ELSE fs
             /\ rmFailed' = (rmFailed \/ e # Nil)
             /\ rmErr' = [rmErr EXCEPT ![p] = @ \/ e # Nil]
    /\ pc' = [pc EXCEPT ![p] = "done"]
    /\ UNCHANGED <<umask, cfg, err, ret, op, cfgFile, keyFile, id,
                   nsaves, spawned, newCalls, cmd, before, dir0, calc, rendered>>

-----------------------------------------------------------------------------
(* Specifications *)

Next ==
    \E p \in Procs :
        \/ \E name \in Names, vlan \in Vlans, port \in Ports :
              NewOpenVpnConfig(p, name, vlan, port)
        \/ SaveOpenCfg(p)
        \/ SaveOpenKey(p)
        \/ SaveExecute(p)
        \/ SaveWriteKey(p)
        \/ DeferKeyClose(p)
        \/ DeferKeyRemove(p)
        \/ DeferCfgClose(p)
        \/ DeferCfgRemove(p)

\* Provisioning requests one after the other.
Spec == Init /\ [][Next]_vars

\* Provisioning requests of two processes overlapping.
SpecConc == InitConc /\ [][Next]_vars

-----------------------------------------------------------------------------
(* NewInterfaceName and the template on their own, over wider inputs *)

\* Largest increment between consecutive bytes of a sampled random value.
MaxStride == 2

\* Sampled results of rand.Read: 16 bytes starting anywhere in 0..255 and
\* advancing by a fixed stride, so that every byte value occurs.
RandSamples ==
    { [i \in 1..RandLen |-> (seed + i * stride) % 256] :
        seed \in 0..255, stride \in 0..MaxStride }

\* Sampled fields of OpenVpnCfg and values of staticconfig.Libexecdir.
NameSamples == {"lab1", "x"}

Uint16Samples == {0, 42, 1194, 65535}

LibexecdirSamples == {"/usr/libexec/hil-vpn", "/opt/hil"}

InitRender ==
    /\ InitIn({{}}, {}, {18})
    /\ \E d \in RandSamples : calc = [stage |-> "read", data |-> d]

\* Lines 121-124: the fragment computed from the bytes read.
Allocate ==
    /\ calc.stage = "read"
    /\ calc' = [stage |-> "named", data |-> calc.data,
                chars |-> NewInterfaceNameChars(calc.data),
                frag |-> NewInterfaceName(calc.data)]
    /\ UNCHANGED <<fs, umask, pc, cfg, err, ret, op, cfgFile, keyFile, id,
                   nsaves, spawned, newCalls, before, events, stepFailed,
                   rmFailed, rmErr, cmd, dir0, rendered>>

\* Lines 17-35 and 90-94: the document executed for a config, with the
\* paths and the service name of its name.
RenderDoc(name, vlan, port, libexecdir) ==
    /\ calc.stage = "named"
    /\ LET c == [Name |-> name, Port |-> port, Vlan |-> vlan, Key |-> << >>]
       IN  calc' = [stage |-> "rendered", data |-> calc.data,
                    chars |-> calc.chars, frag |-> calc.frag,
                    c |-> c, libexecdir |-> libexecdir,
                    doc |-> Render(c, libexecdir, calc.frag),
                    cfgPath |-> getCfgPath(name),
                    keyPath |-> getKeyPath(name),
                    service |-> getServiceName(name)]
    /\ UNCHANGED <<fs, umask, pc, cfg, err, ret, op, cfgFile, keyFile, id,
                   nsaves, spawned, newCalls, before, events, stepFailed,
                   rmFailed, rmErr, cmd, dir0, rendered>>

NextRender ==
    \/ Allocate
    \/ \E name \in NameSamples, vlan \in Uint16Samples, port \in Uint16Samples,
          libexecdir \in LibexecdirSamples :
          RenderDoc(name, vlan, port, libexecdir)

\* One random value, its interface name, and one document rendered with it.
SpecRender == InitRender /\ [][NextRender]_vars

-----------------------------------------------------------------------------
(* Properties *)

Has(seq, x) == \E i \in 1..Len(seq) : seq[i] = x

CfgPathOf(p) == getCfgPath(cfg[p][1].Name)

KeyPathOf(p) == getKeyPath(cfg[p][1].Name)

\* Process p has returned from Save.
SaveReturned(p) == pc[p] = "done" /\ op[p] = "save"

\* No permission bit of group or others (octal 077) is set.
OwnerOnly(mode) == BitAnd(mode, 63) = 0

\* Every name has its config file exactly when it has its key file.
Paired(dir) ==
    \A n \in Names : (getCfgPath(n) \in DOMAIN dir) <=> (getKeyPath(n) \in DOMAIN dir)

\* C1: a provisioning call that returns an error (key generation, creation
\* of the config file, creation of the key file, rendering or the key write
\* failed), and whose cleanup removals themselves succeeded, leaves the
\* directory, files and contents, exactly as it was when the call began.
C1_FailureRestoresDir ==
    \A p \in Procs :
        (pc[p] = "done" /\ ret[p] # Nil /\ ~rmErr[p]) => fs = before[p]

\* A Save whose key write failed after both files were created has returned,
\* having removed both.
C1_Witness ==
    \E p \in Procs :
        /\ SaveReturned(p) /\ ret[p] = EIO /\ ~rmErr[p]
        /\ events[p] = << "openCfg", "openKey", "execute", "writeKey",
                          "closeKey", "removeKey", "closeCfg", "removeCfg" >>

\* C2: after a Save that returns nil, the config file and the key file of
\* the name exist, both created by this call with owner-only permissions,
\* the key file holds exactly the captured output of the key-generation
\* subprocess, and no removal has run.
C2_SuccessLeavesBoth ==
    \A p \in Procs :
        (SaveReturned(p) /\ ret[p] = Nil) =>
            /\ CfgPathOf(p) \in DOMAIN fs
            /\ KeyPathOf(p) \in DOMAIN fs
            /\ fs[CfgPathOf(p)].by = id[p]
            /\ fs[KeyPathOf(p)].by = id[p]
            /\ OwnerOnly(fs[CfgPathOf(p)].mode)
            /\ OwnerOnly(fs[KeyPathOf(p)].mode)
            /\ fs[KeyPathOf(p)].data = cmd[p].output
            /\ ~Has(events[p], "removeKey")
            /\ ~Has(events[p], "removeCfg")

\* A Save has returned nil.
C2_Witness ==
    \E p \in Procs :
        /\ SaveReturned(p) /\ ret[p] = Nil
        /\ fs[KeyPathOf(p)].data = cmd[p].output
        /\ Len(cmd[p].output) > 0

\* C3: a Save entered while the config file of its name exists returns the
\* collision error at once, leaves the directory as it was, and neither
\* creates nor opens a key file.
C3_CfgCollision ==
    \A p \in Procs :
        (op[p] = "save" /\ CfgPathOf(p) \in DOMAIN before[p]) =>
            /\ pc[p] = "done"
            /\ ret[p] = EEXIST
            /\ fs = before[p]
            /\ events[p] = << "openCfg" >>
            /\ cfgFile[p] = NoHandle
            /\ keyFile[p] = NoHandle

\* A second Save for a name an earlier Save provisioned has returned.
C3_Witness ==
    \E p \in Procs :
        /\ SaveReturned(p)
        /\ CfgPathOf(p) \in DOMAIN before[p]
        /\ KeyPathOf(p) \in DOMAIN before[p]
        /\ before[p][CfgPathOf(p)].by # 0
        /\ before[p][KeyPathOf(p)].by # 0
        /\ ret[p] = EEXIST

\* C4: a Save entered while the key file of its name exists and the config
\* file does not returns an error; the key file is as it was, it was neither
\* opened nor removed, and the config file is gone again once its removal
\* succeeded.
C4_KeyCollision ==
    \A p \in Procs :
        ( /\ SaveReturned(p)
          /\ KeyPathOf(p) \in DOMAIN before[p]
          /\ CfgPathOf(p) \notin DOMAIN before[p] ) =>
            /\ ret[p] # Nil
            /\ KeyPathOf(p) \in DOMAIN fs
            /\ fs[KeyPathOf(p)] = before[p][KeyPathOf(p)]
            /\ keyFile[p] = NoHandle
            /\ ~Has(events[p], "removeKey")
            /\ ~rmErr[p] => CfgPathOf(p) \notin DOMAIN fs

\* A Save created the config file, found the key file present, and removed
\* the config file.
C4_Witness ==
    \E p \in Procs :
        /\ SaveReturned(p)
        /\ KeyPathOf(p) \in DOMAIN before[p]
        /\ CfgPathOf(p) \notin DOMAIN before[p]
        /\ events[p] = << "openCfg", "openKey", "closeCfg", "removeCfg" >>
        /\ ret[p] = EEXIST
        /\ CfgPathOf(p) \notin DOMAIN fs

\* Processes p and q have each returned from one Save, the first two Saves
\* of the run, for the same name, whose files did not exist initially.
TwoSaves(p, q) ==
    /\ p # q
    /\ SaveReturned(p) /\ SaveReturned(q)
    /\ id[p] = 1 /\ id[q] = 2
    /\ cfg[p][1].Name = cfg[q][1].Name
    /\ CfgPathOf(p) \notin DOMAIN dir0
    /\ KeyPathOf(p) \notin DOMAIN dir0

\* C5: of two Saves of two processes for the same name, under every
\* interleaving of their steps, never both return nil; and when neither
\* reports an input/output failure, exactly one returns nil and the other
\* the collision error, the directory has gained exactly the config file
\* and the key file the winner created, and the key file holds the
\* winner's key.
C5_OneWinner ==
    \A p, q \in Procs :
        TwoSaves(p, q) =>
            /\ ~(ret[p] = Nil /\ ret[q] = Nil)
            /\ (ret[p] \in {Nil, EEXIST} /\ ret[q] \in {Nil, EEXIST}) =>
                 \E w \in {p, q} :
                    /\ ret[w] = Nil
                    /\ \A l \in {p, q} \ {w} : ret[l] = EEXIST
                    /\ DOMAIN fs = DOMAIN dir0 \cup {CfgPathOf(w), KeyPathOf(w)}
                    /\ fs[CfgPathOf(w)].by = id[w]
                    /\ fs[KeyPathOf(w)].by = id[w]
                    /\ fs[KeyPathOf(w)].data = cmd[w].output

\* The second Save collided while the first one had created its config file
\* but not yet its key file; both have returned, with different keys.
C5_Witness ==
    \E p, q \in Procs :
        /\ TwoSaves(p, q)
        /\ ret[p] = Nil /\ ret[q] = EEXIST
        /\ CfgPathOf(q) \in DOMAIN before[q]
        /\ KeyPathOf(q) \notin DOMAIN before[q]
        /\ cmd[p].output # cmd[q].output

\* C6: after the random source failed during rendering and the operation was
\* terminated, no file this call created remains in the directory.
C6_FatalLeavesNothing ==
    \A p \in Procs :
        pc[p] = "exited" => \A path \in DOMAIN fs : fs[path].by # id[p]

\* No os.Remove has failed and no process is inside a call.
Settled ==
    /\ ~rmFailed
    /\ \A p \in Procs : pc[p] \in {"start", "done", "absent"}

\* C7: from a directory in which every name has its config file exactly
\* when it has its key file, after any sequence of completed calls whose
\* cleanup removals succeeded, every name still has its config file exactly
\* when it has its key file.
C7_PairedStaysPaired ==
    (Paired(dir0) /\ Settled) => Paired(fs)

\* After a successful first Save, a second Save has failed and removed both
\* of its files.
C7_Witness ==
    /\ Paired(dir0) /\ Settled
    /\ \E p \in Procs :
        /\ SaveReturned(p) /\ id[p] = 2
        /\ Has(events[p], "removeKey") /\ Has(events[p], "removeCfg")
        /\ \E path \in DOMAIN fs : fs[path].by = 1

\* C8: in every state, every file a Save created has no permission bit of
\* group or others set.
C8_OwnerOnly ==
    \A path \in DOMAIN fs : fs[path].by # 0 => OwnerOnly(fs[path].mode)

\* During a rollback the key file created by the call holds key bytes.
C8_Witness ==
    \E p \in Procs :
        /\ pc[p] = "removeKey"
        /\ KeyPathOf(p) \in DOMAIN fs
        /\ fs[KeyPathOf(p)].by = id[p]
        /\ Len(fs[KeyPathOf(p)].data) > 0

\* C9: when any step of a Save returned an error (creation, rendering, key
\* write, close or removal), Save returns a non-nil error.
C9_NoErrorSwallowed ==
    \A p \in Procs : (SaveReturned(p) /\ stepFailed[p]) => ret[p] # Nil

\* A step of process p is a call of NewOpenVpnConfig.
NewStep(p) == newCalls'[p] = newCalls[p] + 1

\* A step of process p is the entry of a Save.
SaveEntry(p) == nsaves' = nsaves + 1 /\ id'[p] = nsaves'

\* C10: a call of NewOpenVpnConfig spawns exactly one subprocess and leaves
\* the directory alone; when the subprocess fails it returns an error and no
\* config, otherwise the config holding the captured output and no error;
\* and a process that holds no config enters no Save.
C10_NewOpenVpnConfig ==
    /\ [][\A p \in Procs :
            /\ NewStep(p) =>
                 /\ spawned'[p] = spawned[p] + 1
                 /\ fs' = fs
                 /\ cmd'[p].err # Nil => (ret'[p] # Nil /\ cfg'[p] = << >>)
                 /\ cmd'[p].err = Nil =>
                      /\ ret'[p] = Nil
                      /\ Len(cfg'[p]) = 1
                      /\ cfg'[p][1].Key = cmd'[p].output
            /\ ~NewStep(p) => spawned'[p] = spawned[p]
            /\ cfg[p] = << >> => ~SaveEntry(p)]_vars
    /\ [](\A p \in Procs : spawned[p] = newCalls[p])

\* A second call of NewOpenVpnConfig failed after the first one succeeded.
C10_Witness ==
    \E p \in Procs :
        /\ pc[p] = "done" /\ op[p] = "new"
        /\ newCalls[p] = 2 /\ spawned[p] = 2
        /\ cmd[p].err # Nil /\ ret[p] # Nil /\ cfg[p] = << >>

\* The URL-safe base64 alphabet: A-Z, a-z, 0-9, "-" and "_".
URLSafeChars ==
    { "A", "B", "C", "D", "E", "F", "G", "H", "I", "J", "K", "L", "M",
      "N", "O", "P", "Q", "R", "S", "T", "U", "V", "W", "X", "Y", "Z",
      "a", "b", "c", "d", "e", "f", "g", "h", "i", "j", "k", "l", "m",
      "n", "o", "p", "q", "r", "s", "t", "u", "v", "w", "x", "y", "z",
      "0", "1", "2", "3", "4", "5", "6", "7", "8", "9", "-", "_" }

\* The six bits a character of the alphabet stands for.
Sextet(ch) == (CHOOSE i \in 1..64 : encodeURL[i] = ch) - 1

\* Characters 4k+1..4k+4 spell, six bits each, bytes 3k+1..3k+3.
QuantumDecodes(chars, data, k) ==
    Sextet(chars[4 * k + 1]) * 262144 + Sextet(chars[4 * k + 2]) * 4096
        + Sextet(chars[4 * k + 3]) * 64 + Sextet(chars[4 * k + 4])
      = data[3 * k + 1] * 65536 + data[3 * k + 2] * 256 + data[3 * k + 3]

\* C11: for every 16 bytes read, NewInterfaceName returns 12 characters of
\* the URL-safe alphabet, which are the first 12 characters of the unpadded
\* base64 encoding of the bytes (they spell the first 9 bytes, six bits a
\* character), and "tap" followed by them is 15 characters long.
C11_InterfaceName ==
    calc.stage \in {"named", "rendered"} =>
        /\ Len(calc.chars) = 12
        /\ \A i \in 1..Len(calc.chars) : calc.chars[i] \in URLSafeChars
        /\ \A k \in 0..2 : QuantumDecodes(calc.chars, calc.data, k)
        /\ calc.frag = Join(calc.chars)
        /\ Len(calc.frag) = 12
        /\ Len("tap" \o calc.frag) = 15

\* A name containing both "-" and "_" has been allocated.
C11_Witness ==
    /\ calc.stage = "named"
    /\ Has(calc.chars, "-") /\ Has(calc.chars, "_")
    /\ Len(calc.frag) = 12

-----------------------------------------------------------------------------
(* C12 *)

\* The lines of want occur in doc, in the order of want.
RECURSIVE InOrder(_, _)
InOrder(want, doc) ==
    IF Len(want) = 0 THEN TRUE
    ELSE IF Len(doc) = 0 THEN FALSE
    ELSE IF Head(want) = Head(doc) THEN InOrder(Tail(want), Tail(doc))
    ELSE InOrder(want, Tail(doc))

\* The directives the document must hold for a name, vlan, port, helper
\* directory and device-name fragment; numbers in decimal.
Directives(name, vlan, port, helperDir, frag) ==
    << "dev tap" \o frag,
       "secret hil-vpn-" \o name \o ".key",
       "cipher AES-256-CBC",
       "lport " \o ToString(port),
       "up \"" \o helperDir \o "/hil-vpn-hook-up " \o ToString(vlan) \o "\"",
       "script-security 2",
       "user nobody",
       "group nobody" >>

\* C12: the rendered document holds the eight directives in their order,
\* with the 12-character fragment, the name, the port and the vlan of the
\* config; the file of the secret directive is the base name of the key
\* path of the same name; the service name is openvpn-server@<name> and the
\* config path ends in <name>.conf.
C12_RenderedDocument ==
    calc.stage = "rendered" =>
        LET name == calc.c.Name
            base == "hil-vpn-" \o name \o ".key"
        IN  /\ Len(calc.frag) = 12
            /\ InOrder(Directives(name, calc.c.Vlan, calc.c.Port,
                                  calc.libexecdir, calc.frag), calc.doc)
            /\ Has(calc.doc, "secret " \o base)
            /\ calc.keyPath = "/etc/openvpn/server/" \o base
            /\ calc.service = "openvpn-server@" \o name
            /\ calc.cfgPath = "/etc/openvpn/server/" \o name \o ".conf"

\* A document rendered with a five-digit port and a vlan of another value.
C12_Witness ==
    /\ calc.stage = "rendered"
    /\ calc.c.Name = "lab1"
    /\ calc.c.Port = 65535
    /\ calc.c.Vlan = 42
    /\ Len(calc.doc) = 18

-----------------------------------------------------------------------------
(* C13 *)

\* This step is the call named call of the Save of process p.
Appended(p, call) == events'[p] = Append(events[p], call)

\* The file at path was created by the running Save of process p.
Mine(dir, p, path) == path \in DOMAIN dir /\ dir[path].by = id[p]

\* What holds before each step of a Save is taken.
C13_Step(p) ==
    /\ Appended(p, "openKey") =>
          /\ events[p] = << "openCfg" >>
          /\ cfgFile[p].st = "open"
          /\ Mine(fs, p, CfgPathOf(p))
    /\ (Appended(p, "execute") \/ Appended(p, "fatal")) =>
          /\ events[p] = << "openCfg", "openKey" >>
          /\ cfgFile[p].st = "open" /\ keyFile[p].st = "open"
          /\ Mine(fs, p, CfgPathOf(p)) /\ Mine(fs, p, KeyPathOf(p))
          /\ fs[CfgPathOf(p)].data = << >>
    /\ Appended(p, "writeKey") =>
          /\ events[p] = << "openCfg", "openKey", "execute" >>
          /\ err[p] = Nil
          /\ Mine(fs, p, CfgPathOf(p))
          /\ Len(fs[CfgPathOf(p)].data) = 18
          /\ fs[CfgPathOf(p)].data[18] = "group nobody"
          /\ fs[KeyPathOf(p)].data = << >>

\* What holds in each state of a Save.
C13_State(p) ==
    op[p] = "save" =>
        /\ cfgFile[p].st = "nil" =>
              /\ events[p] = << "openCfg" >>
              /\ keyFile[p].st = "nil"
              /\ pc[p] = "done"
        /\ (Mine(fs, p, KeyPathOf(p)) /\ fs[KeyPathOf(p)].data # << >>) =>
              Has(events[p], "writeKey")
        /\ (Has(events[p], "execute") /\ err[p] # Nil
               /\ ~Has(events[p], "writeKey")) =>
              (Mine(fs, p, KeyPathOf(p)) => fs[KeyPathOf(p)].data = << >>)

\* C13: within one Save the key file is attempted only after the config
\* file was created, the template is executed only after both files were
\* created and while the config file is still empty, and the key is written
\* only after Execute returned nil and the whole document is in the config
\* file; after a failed creation of the config file nothing else is
\* attempted, and after a failed Execute no key byte reaches the key file.
C13_StepOrder ==
    /\ [](\A p \in Procs : C13_State(p))
    /\ [][\A p \in Procs : C13_Step(p)]_vars

\* Execute has failed and the deferred functions have begun: the key file
\* of this Save is there and empty.
C13_Witness ==
    /\ op[1] = "save"
    /\ events[1] = << "openCfg", "openKey", "execute", "closeKey" >>
    /\ err[1] = EIO
    /\ Mine(fs, 1, KeyPathOf(1))
    /\ fs[KeyPathOf(1)].data = << >>

-----------------------------------------------------------------------------
(* C14 *)

\* Number of times the template was executed in the Save of process p.
Renders(p) ==
    Cardinality({i \in 1..Len(events[p]) : events[p][i] \in {"execute", "fatal"}})

\* The fragments NewInterfaceName can return for the modelled random values.
Fragments == {NewInterfaceName(d) : d \in RandData}

\* Two documents are the same apart from their device line.
SameButDevice(d1, d2) ==
    /\ Len(d1) = Len(d2)
    /\ \A k \in 1..Len(d1) : k # 4 => d1[k] = d2[k]

C14_State(p) ==
    /\ Renders(p) <= 1
    /\ (SaveReturned(p) /\ keyFile[p].st # "nil") => Renders(p) = 1
    /\ (op[p] = "save" /\ keyFile[p].st = "nil") => Renders(p) = 0
    /\ cfg[p] # << >> => DOMAIN cfg[p][1] = {"Name", "Key", "Port", "Vlan"}
    /\ \A i \in 1..Len(rendered[p]) :
          /\ \E f \in Fragments : rendered[p][i][4] = "dev tap" \o f
          /\ \A j \in 1..Len(rendered[p]) :
                SameButDevice(rendered[p][i], rendered[p][j])

C14_Step(p) ==
    /\ (Appended(p, "execute") \/ Appended(p, "fatal")) => cfg' = cfg
    /\ rendered'[p] # rendered[p] =>
          \/ rendered'[p] = << >>
          \/ /\ Appended(p, "execute")
             /\ Len(rendered'[p]) = Len(rendered[p]) + 1
             /\ fs'[CfgPathOf(p)].data = rendered'[p][Len(rendered'[p])]

\* C14: no Save executes the template more than once, a Save that created
\* both files executes it once and a Save that did not executes it not at
\* all; the document carries one fragment, in its device line; the config
\* has the fields Name, Key, Port and Vlan only and is not changed by the
\* execution; the documents executed for one config are the same apart from
\* the device line.
C14_RenderOnce ==
    /\ [](\A p \in Procs : C14_State(p))
    /\ [][\A p \in Procs : C14_Step(p)]_vars

\* The same config was rendered by two Saves, with two different fragments.
C14_Witness ==
    /\ Len(rendered[1]) = 2
    /\ rendered[1][1][4] # rendered[1][2][4]
    /\ Renders(1) = 1

-----------------------------------------------------------------------------
(* C15 *)

\* Position of the first occurrence of call among the steps of process p,
\* or 0.
StepOf(p, call) ==
    IF Has(events[p], call)
    THEN CHOOSE i \in 1..Len(events[p]) :
            /\ events[p][i] = call
            /\ \A j \in 1..(i - 1) : events[p][j] # call
    ELSE 0

\* The deferred functions ran in the reverse order of their registration.
KeyFirst(p) ==
    (Has(events[p], "removeCfg") /\ Has(events[p], "openKey")
       /\ keyFile[p].st # "nil") =>
        /\ Has(events[p], "removeKey")
        /\ StepOf(p, "closeKey") < StepOf(p, "removeKey")
        /\ StepOf(p, "removeKey") < StepOf(p, "closeCfg")
        /\ StepOf(p, "closeCfg") < StepOf(p, "removeCfg")

\* C15: when Save fails after creating both files, the key file is removed
\* before the config file; and in every state of a Save whose removals
\* succeeded, the key file created by the call is in the directory only if
\* the config file created by the call is.
C15_KeyOnlyWithCfg ==
    \A p \in Procs :
        op[p] = "save" =>
            /\ KeyFirst(p)
            /\ (~rmErr[p] /\ Mine(fs, p, KeyPathOf(p))) =>
                  Mine(fs, p, CfgPathOf(p))

\* In the middle of a rollback: the key file is removed, the config file of
\* this call is still there.
C15_Witness ==
    /\ op[1] = "save"
    /\ pc[1] = "removeCfg"
    /\ Has(events[1], "removeKey")
    /\ ~rmErr[1]
    /\ KeyPathOf(1) \notin DOMAIN fs
    /\ Mine(fs, 1, CfgPathOf(1))

-----------------------------------------------------------------------------
(* C16 *)

\* Process p has created its config file and has not yet returned from Save.
InSave(p) ==
    pc[p] \in {"openKey", "execute", "writeKey", "closeKey", "removeKey",
               "closeCfg", "removeCfg"}

\* The paths whose file is removed or altered by the step.
Touched == {q \in DOMAIN fs : q \notin DOMAIN fs' \/ fs'[q] # fs[q]}

\* The paths whose file is removed by the step.
Removed == {q \in DOMAIN fs : q \notin DOMAIN fs'}

\* C16: with two processes saving at the same time, every file a step
\* removes or alters was created by the Save of the process taking the
\* step, and removals happen in its deferred functions only; two processes
\* saving the same name are never both between the creation of the config
\* file and the return.
C16_RollbackOwnFiles ==
    /\ [][\A q \in Touched :
            \E p \in Procs :
                /\ events'[p] # events[p]
                /\ op[p] = "save" /\ id[p] # 0
                /\ fs[q].by = id[p]
                /\ q \in {CfgPathOf(p), KeyPathOf(p)}
                /\ q \in Removed => pc[p] \in {"removeKey", "removeCfg"}]_vars
    /\ [](\A p, q \in Procs :
            (p # q /\ InSave(p) /\ InSave(q)) =>
                cfg[p][1].Name # cfg[q][1].Name)

\* Process 1 is rolling back and has removed its key file; process 2 asked
\* for the same name meanwhile and was refused.
C16_Witness ==
    /\ pc[1] = "removeCfg"
    /\ Has(events[1], "removeKey")
    /\ KeyPathOf(1) \notin DOMAIN fs
    /\ op[2] = "save" /\ pc[2] = "done"
    /\ cfg[2][1].Name = cfg[1][1].Name
    /\ id[2] > id[1]
    /\ ret[2] = EEXIST

-----------------------------------------------------------------------------
(* C17 *)

\* The paths created, written or removed by the step.
Changed ==
    {q \in (DOMAIN fs) \cup (DOMAIN fs') :
        q \notin DOMAIN fs \/ q \notin DOMAIN fs' \/ fs'[q] # fs[q]}

\* The step is a step of a Save of process p.
Acts(p) == events'[p] # events[p] \/ id'[p] # id[p]

\* Names to compare the paths of, some of them shaped like file names.
PathNames ==
    Names \cup {"lab", "lab1.conf", "hil-vpn-lab1", "hil-vpn-lab1.key",
                "x.key", "x.conf", "hil-vpn-x"}

\* No path of one name is a path of another name.
PathsApart ==
    \A n, m \in PathNames :
        n # m =>
            {getCfgPath(n), getKeyPath(n)} \cap {getCfgPath(m), getKeyPath(m)} = {}

\* C17: a step of a call for a name creates, writes or removes no path but
\* the config path and the key path of that name, so the files of every
\* other name stay as they are; and the paths of two different names are
\* different.
C17_OwnPathsOnly ==
    /\ [][fs' # fs =>
            \E p \in Procs :
                /\ Acts(p)
                /\ cfg[p] # << >>
                /\ Changed \subseteq {CfgPathOf(p), KeyPathOf(p)}
                /\ \A m \in Names \ {cfg[p][1].Name} :
                      \A q \in {getCfgPath(m), getKeyPath(m)} :
                          /\ q \in DOMAIN fs <=> q \in DOMAIN fs'
                          /\ q \in DOMAIN fs => fs'[q] = fs[q]]_vars
    /\ []PathsApart

\* The files of x are in place, and a Save of lab1 after them has failed and
\* rolled back.
C17_Witness ==
    /\ SaveReturned(1)
    /\ cfg[1][1].Name = "lab1"
    /\ Has(events[1], "removeCfg")
    /\ getCfgPath("x") \in DOMAIN fs /\ getKeyPath("x") \in DOMAIN fs
    /\ fs[getKeyPath("x")].by = 1 /\ id[1] = 2
    /\ fs[getKeyPath("x")].data \in KeyOutputs

-----------------------------------------------------------------------------
(* C18 *)

\* What holds before each Close and each Remove of a Save.
C18_Step(p) ==
    /\ Appended(p, "closeKey") => keyFile[p].st = "open" /\ keyFile[p].ino # 0
    /\ Appended(p, "closeCfg") => cfgFile[p].st = "open" /\ cfgFile[p].ino # 0
    /\ Appended(p, "removeKey") => keyFile[p].st = "closed"
    /\ Appended(p, "removeCfg") => cfgFile[p].st = "closed"

\* What holds when Save has returned.
C18_Returned(p) ==
    SaveReturned(p) =>
        /\ cfgFile[p].st \in {"nil", "closed"}
        /\ keyFile[p].st \in {"nil", "closed"}
        /\ cfgFile[p].st = "nil" <=> (events[p] = << "openCfg" >> /\ ret[p] # Nil)
        /\ cfgFile[p].st = "closed" <=> Has(events[p], "closeCfg")
        /\ keyFile[p].st = "closed" <=> Has(events[p], "closeKey")
        /\ keyFile[p].st = "nil" =>
              (ret[p] # Nil /\ ~Has(events[p], "execute")
                 /\ ~Has(events[p], "removeKey"))

\* C18: when Save returns, on any of its paths, each handle it opened is
\* closed and each handle it did not open was left alone; Close is called
\* on open handles only, and Remove of a file only after the Close of its
\* handle.
C18_HandlesClosed ==
    /\ [](\A p \in Procs : C18_Returned(p))
    /\ [][\A p \in Procs : C18_Step(p)]_vars

\* Save has returned after failing to create the key file: the config
\* handle was closed and its file removed, the key handle was never opened.
C18_Witness ==
    /\ SaveReturned(1)
    /\ events[1] = << "openCfg", "openKey", "closeCfg", "removeCfg" >>
    /\ cfgFile[1].st = "closed"
    /\ keyFile[1].st = "nil"

====
